---- MODULE Spec2Model ----
(***************************************************************************)
(* A model of dlsys.Dlsys (src/dlsys/dlsys.py): the fluent configuration   *)
(* object, its terminal operations (audio, download_video,                 *)
(* download_images, download_webpages) and split_audio.                    *)
(*                                                                         *)
(* Three specifications share the variables:                               *)
(*   Spec       configuration calls, audio() and download_video()          *)
(*   BatchSpec  multi(), download_images() and download_webpages()         *)
(*   SplitSpec  split_audio() on one file                                  *)
(***************************************************************************)
EXTENDS Integers, Sequences, FiniteSets, TLC

(* ------------------------------ bounds --------------------------------- *)

\* longest list handed to set_url
MaxUrls == 2
\* longest list handed to download_images / download_webpages
MaxBatch == 3
\* largest argument of split() and of split_audio()
MaxMinutes == 2
\* longest audio file of SplitSpec, in whole minutes (plus an offset below)
MaxAudioMinutes == 3
\* worker processes of multiprocessing.Pool(): os.cpu_count() of the host
PoolSize == 2

\* split_minutes = None, the value __init__ gives it
NoSplit == -1

(* ------------------------- Python values ------------------------------- *)

\* An element of a list: a str or an int.
PyStr(s) == [t |-> "str", s |-> s]
PyInt == [t |-> "int", s |-> "7"]
Atoms == {PyStr("https://youtu.be/video1"), PyStr("https://youtu.be/video2"), PyInt}

RECURSIVE SeqsUpTo(_, _)
SeqsUpTo(S, n) ==
    IF n = 0 THEN {<<>>}
    ELSE LET shorter == SeqsUpTo(S, n - 1)
         IN  shorter \cup {Append(q, x) : q \in {r \in shorter : Len(r) = n - 1}, x \in S}

\* An argument of a call: t is its Python type, s a str's text, items a
\* list's or tuple's elements, n an int's value.
Arg(t, s, items, n) == [t |-> t, s |-> s, items |-> items, n |-> n]
NoArg == Arg("none", "", <<>>, 0)
StrArg(s) == Arg("str", s, <<>>, 0)
IntArg(n) == Arg("int", "", <<>>, n)
ListArg(xs) == Arg("list", "", xs, 0)
TupleArg(xs) == Arg("tuple", "", xs, 0)

\* what callers hand to set_url
SetUrlArgs ==
    {StrArg(a.s) : a \in {x \in Atoms : x.t = "str"}}
    \cup {ListArg(xs) : xs \in SeqsUpTo(Atoms, MaxUrls)}
    \cup {IntArg(7), Arg("NoneType", "", <<>>, 0),
          TupleArg(<<PyStr("https://youtu.be/video1"), PyStr("https://youtu.be/video2")>>)}
OutputPaths == {"%(title)s.%(ext)s", "%(id)s.%(ext)s"}
OutputDirs == {".", "downloads"}
SplitArgs == 0 .. MaxMinutes

(* ----------------------- attribute lookup ------------------------------ *)

\* The instance __dict__ after __init__: the names it assigns.
InstanceDict == {"urls", "output_path", "output_dir", "use_multiprocessing", "split_minutes"}

\* The class body's def statements in source order, each with its line.
ClassBody ==
    << [name |-> "__init__", line |-> 42],
       [name |-> "set_url", line |-> 49],
       [name |-> "set_output_path", line |-> 59],
       [name |-> "output_dir", line |-> 64],
       [name |-> "multi", line |-> 69],
       [name |-> "split", line |-> 74],
       [name |-> "audio", line |-> 79],
       [name |-> "download_audios", line |-> 96],
       [name |-> "_download_audio", line |-> 116],
       [name |-> "download_image", line |-> 134],
       [name |-> "download_images", line |-> 145],
       [name |-> "download_webpage", line |-> 172],
       [name |-> "download_webpages", line |-> 185],
       [name |-> "download_video", line |-> 212],
       [name |-> "download_image", line |-> 228],
       [name |-> "download_images", line |-> 246],
       [name |-> "split_audio", line |-> 267] >>

\* The class __dict__ binds a name to its LAST def in the body (0: unbound).
ClassDef(name) ==
    LET places == {i \in 1 .. Len(ClassBody) : ClassBody[i].name = name}
    IN  IF places = {} THEN 0
        ELSE ClassBody[CHOOSE i \in places : \A j \in places : j <= i].line

\* obj.name: the instance __dict__ first, then the class, else AttributeError.
GetAttr(name) ==
    IF name \in InstanceDict THEN "data"
    ELSE IF ClassDef(name) # 0 THEN "method"
    ELSE "AttributeError"

(* ------------------------------ state ---------------------------------- *)

VARIABLES
    urls, output_path, output_dir, use_multiprocessing, split_minutes,
    last, pc, op, jobs, output_files,
    dirs, files, pools, fetchLog, segLog,
    batch, input_exists, audio_len, minutes, seg_i, segments

fields == <<urls, output_path, output_dir, use_multiprocessing, split_minutes>>
run == <<pc, op, jobs, output_files>>
env == <<dirs, files, pools, fetchLog, segLog>>
splitVars == <<input_exists, audio_len, minutes, seg_i, segments>>
vars == <<fields, last, run, env, batch, splitVars>>

\* the outcome of the latest call on the object
Outcome(name, arg, exc) == [op |-> name, arg |-> arg, exc |-> exc]

\* __init__, on a host whose working directory exists and nothing else
Init ==
    /\ urls = <<>>
    /\ output_path = "%(title)s.%(ext)s"
    /\ output_dir = "."
    /\ use_multiprocessing = FALSE
    /\ split_minutes = NoSplit
    /\ last = Outcome("__init__", NoArg, "none")
    /\ pc = "idle"
    /\ op = "none"
    /\ jobs = <<>>
    /\ output_files = <<>>
    /\ dirs = {"."}
    /\ files = {}
    /\ pools = 0
    /\ fetchLog = <<>>
    /\ segLog = <<>>
    /\ batch = <<>>
    /\ input_exists = FALSE
    /\ audio_len = 0
    /\ minutes = 0
    /\ seg_i = 0
    /\ segments = <<>>

(* ----------------------- configuration methods ------------------------- *)

\* A call obj.name(...) that raises before the method's body runs, or never
\* reaches a body: nothing but the recorded outcome changes.
Raise(name, arg, exc) ==
    /\ last' = Outcome(name, arg, exc)
    /\ UNCHANGED <<fields, run, env, batch, splitVars>>

\* isinstance(urls, str) / isinstance(urls, list) / else raise ValueError
set_url(arg) ==
    /\ pc = "idle"
    /\ IF arg.t = "str"
       THEN /\ urls' = <<PyStr(arg.s)>>
            /\ last' = Outcome("set_url", arg, "none")
       ELSE IF arg.t = "list"
       THEN /\ urls' = arg.items
            /\ last' = Outcome("set_url", arg, "none")
       ELSE /\ urls' = urls
            /\ last' = Outcome("set_url", arg, "ValueError")
    /\ UNCHANGED <<output_path, output_dir, use_multiprocessing, split_minutes,
                   run, env, batch, splitVars>>

set_output_path(p) ==
    /\ pc = "idle"
    /\ output_path' = p
    /\ last' = Outcome("set_output_path", StrArg(p), "none")
    /\ UNCHANGED <<urls, output_dir, use_multiprocessing, split_minutes,
                   run, env, batch, splitVars>>

\* the body of def output_dir
SetOutputDir(d, how) ==
    /\ output_dir' = d
    /\ last' = Outcome(how, StrArg(d), "none")
    /\ UNCHANGED <<urls, output_path, use_multiprocessing, split_minutes,
                   run, env, batch, splitVars>>

\* obj.output_dir(d): the lookup finds the instance attribute __init__ set, a
\* str, and calling a str raises TypeError.
output_dir_call(d) ==
    /\ pc = "idle"
    /\ IF GetAttr("output_dir") = "method"
       THEN SetOutputDir(d, "output_dir")
       ELSE Raise("output_dir", StrArg(d), "TypeError")

\* Dlsys.output_dir(obj, d): through the class nothing shadows the function.
output_dir_unbound(d) ==
    /\ pc = "idle"
    /\ ClassDef("output_dir") # 0
    /\ SetOutputDir(d, "Dlsys.output_dir")

multi ==
    /\ pc = "idle"
    /\ use_multiprocessing' = TRUE
    /\ last' = Outcome("multi", NoArg, "none")
    /\ UNCHANGED <<urls, output_path, output_dir, split_minutes,
                   run, env, batch, splitVars>>

split(m) ==
    /\ pc = "idle"
    /\ split_minutes' = m
    /\ last' = Outcome("split", IntArg(m), "none")
    /\ UNCHANGED <<urls, output_path, output_dir, use_multiprocessing,
                   run, env, batch, splitVars>>

\* the truth value of self.split_minutes: None and 0 are false
SplitConfigured == split_minutes # NoSplit /\ split_minutes # 0

(* --------------------------- split_audio ------------------------------- *)

Min(a, b) == IF a <= b THEN a ELSE b

\* segment_length_ms = minutes * 60 * 1000
SegmentLengthMs(m) == m * 60 * 1000

\* the count rounded down, len(audio) // segment_length_ms
NumSegmentsFloor(len, m) == len \div SegmentLengthMs(m)

\* math.ceil(len(audio) / segment_length_ms), for a positive segment length.
\* The float quotient is exact enough for ceil below 2^53 ms, so the integer
\* ceiling is what the code computes.
NumSegments(len, m) ==
    LET q == len \div SegmentLengthMs(m)
    IN  IF q * SegmentLengthMs(m) = len THEN q ELSE q + 1

\* audio[start_time:end_time]: a slice of an AudioSegment stops at its end
Slice(len, start_time, end_time) ==
    [start |-> Min(start_time, len), end |-> Min(end_time, len)]

\* the segment of loop index i (from 0)
Segment(len, m, i) ==
    Slice(len, i * SegmentLengthMs(m), (i + 1) * SegmentLengthMs(m))

(* ------------------------------ audio ---------------------------------- *)

\* The file _download_audio returns for a URL: the template filled in by the
\* fetch primitive, with the extension replaced by .mp3 (part 0: the whole file).
OutFile(u) == [dir |-> output_dir, tmpl |-> output_path, src |-> u.s, part |-> 0]

\* len(audio) of a downloaded file, in ms: what the source holds
DownloadedLen(f) == IF f.src = "https://youtu.be/video1" THEN 150000 ELSE 60000

\* the files split_audio exports for f
PartFiles(f, m) ==
    {[f EXCEPT !.part = i + 1] : i \in 0 .. NumSegments(DownloadedLen(f), m) - 1}

\* the guard written as "if self.urls is None": __init__ sets a list, never None
UrlsIsNone == FALSE

\* if not self.urls
UrlsNotSet == Len(urls) = 0

Running == {i \in 1 .. Len(jobs) : jobs[i] = "running"}
Finished == {i \in 1 .. Len(jobs) : jobs[i] \in {"done", "failed"}}
Failed == {i \in 1 .. Len(jobs) : jobs[i] = "failed"}

\* what follows the fetches in audio(): the segmentation loop or return self
AfterFetch == IF SplitConfigured THEN "split" ELSE "returned"

\* obj.audio()
audio ==
    /\ pc = "idle"
    /\ IF UrlsNotSet
       THEN Raise("audio", NoArg, "ValueError")
       ELSE /\ op' = "audio"
            /\ last' = Outcome("audio", NoArg, "pending")
            /\ output_files' = <<>>
            /\ IF Len(urls) = 1
               THEN \* self._download_audio(self.urls[0]), in the caller
                    /\ pc' = "single"
                    /\ jobs' = <<"running">>
                    /\ fetchLog' = Append(fetchLog, urls[1])
                    /\ UNCHANGED <<dirs, pools>>
               ELSE \* download_audios: mkdir, then the pool or the loop
                    /\ dirs' = dirs \cup {output_dir}
                    /\ IF use_multiprocessing
                       THEN /\ pools' = pools + 1
                            /\ pc' = "map"
                            /\ jobs' = [i \in 1 .. Len(urls) |-> "queued"]
                       ELSE /\ pools' = pools
                            /\ pc' = "loop"
                            /\ jobs' = [i \in 1 .. Len(urls) |-> "pending"]
                    /\ UNCHANGED fetchLog
            /\ UNCHANGED <<fields, files, segLog, batch, splitVars>>

\* a worker of the pool takes a queued job: _download_audio(url) starts
AudioWorkerStart(i) ==
    /\ pc = "map"
    /\ jobs[i] = "queued"
    /\ Cardinality(Running) < PoolSize
    /\ jobs' = [jobs EXCEPT ![i] = "running"]
    /\ fetchLog' = Append(fetchLog, urls[i])
    /\ UNCHANGED <<fields, last, pc, op, output_files, dirs, files, pools, segLog,
                   batch, splitVars>>

\* the sequential loop reaches its next URL: _download_audio(url) starts
AudioLoopStart(i) ==
    /\ pc = "loop"
    /\ jobs[i] = "pending"
    /\ \A j \in 1 .. i - 1 : jobs[j] = "done"
    /\ jobs' = [jobs EXCEPT ![i] = "running"]
    /\ fetchLog' = Append(fetchLog, urls[i])
    /\ UNCHANGED <<fields, last, pc, op, output_files, dirs, files, pools, segLog,
                   batch, splitVars>>

\* the fetch primitive writes the file (and the directories above it)
FetchOk(i) ==
    /\ jobs[i] = "running"
    /\ urls[i].t = "str"
    /\ jobs' = [jobs EXCEPT ![i] = "done"]
    /\ files' = files \cup {OutFile(urls[i])}
    /\ dirs' = dirs \cup {output_dir}

\* _download_audio returns in the single-URL path of audio()
AudioSingleOk ==
    /\ pc = "single"
    /\ FetchOk(1)
    /\ output_files' = <<OutFile(urls[1])>>
    /\ pc' = AfterFetch
    /\ last' = IF AfterFetch = "returned" THEN Outcome("audio", NoArg, "none") ELSE last
    /\ UNCHANGED <<fields, op, pools, fetchLog, segLog, batch, splitVars>>

\* _download_audio returns in a worker, or in the loop
AudioJobOk(i) ==
    /\ pc \in {"map", "loop"}
    /\ FetchOk(i)
    /\ UNCHANGED <<fields, last, pc, op, output_files, pools, fetchLog, segLog,
                   batch, splitVars>>

\* the fetch primitive raises: in the caller (single, loop) the error leaves
\* audio() at once; in a worker it is kept for pool.map to raise
AudioJobFail(i) ==
    /\ pc \in {"single", "map", "loop"}
    /\ jobs[i] = "running"
    /\ jobs' = [jobs EXCEPT ![i] = "failed"]
    /\ IF pc = "map"
       THEN UNCHANGED <<pc, last>>
       ELSE /\ pc' = "raised"
            /\ last' = Outcome("audio", NoArg, "DownloadError")
    /\ UNCHANGED <<fields, op, output_files, env, batch, splitVars>>

\* a map that hands back as soon as one job is done
MapReadyOnFirst == Finished # {}

\* pool.map's result is ready once every job is done
MapReady == Finished = 1 .. Len(jobs)

\* pool.map returns the results in input order, or raises the first error
AudioMapEnd ==
    /\ pc = "map"
    /\ MapReady
    /\ IF Failed = {}
       THEN /\ output_files' = [i \in 1 .. Len(urls) |-> OutFile(urls[i])]
            /\ pc' = AfterFetch
            /\ last' = IF AfterFetch = "returned"
                       THEN Outcome("audio", NoArg, "none") ELSE last
       ELSE /\ pc' = "raised"
            /\ last' = Outcome("audio", NoArg, "DownloadError")
            /\ UNCHANGED output_files
    /\ UNCHANGED <<fields, op, jobs, env, batch, splitVars>>

\* the sequential loop of download_audios ends
AudioLoopEnd ==
    /\ pc = "loop"
    /\ \A i \in 1 .. Len(jobs) : jobs[i] = "done"
    /\ output_files' = [i \in 1 .. Len(urls) |-> OutFile(urls[i])]
    /\ pc' = AfterFetch
    /\ last' = IF AfterFetch = "returned" THEN Outcome("audio", NoArg, "none") ELSE last
    /\ UNCHANGED <<fields, op, jobs, env, batch, splitVars>>

\* the next self.split_audio(file, self.split_minutes) of audio(), whole
AudioSplitNext ==
    /\ pc = "split"
    /\ Len(segLog) < Len(output_files)
    /\ LET f == output_files[Len(segLog) + 1]
       IN  IF f \notin files
           THEN /\ pc' = "raised"
                /\ last' = Outcome("audio", NoArg, "FileNotFoundError")
                /\ UNCHANGED <<files, segLog>>
           ELSE /\ segLog' = Append(segLog, f)
                /\ files' = files \cup PartFiles(f, split_minutes)
                /\ UNCHANGED <<pc, last>>
    /\ UNCHANGED <<fields, op, jobs, output_files, dirs, pools, fetchLog,
                   batch, splitVars>>

\* return self
AudioReturn ==
    /\ pc = "split"
    /\ Len(segLog) = Len(output_files)
    /\ pc' = "returned"
    /\ last' = Outcome("audio", NoArg, "none")
    /\ UNCHANGED <<fields, op, jobs, output_files, env, batch, splitVars>>

(* --------------------------- download_video ---------------------------- *)

\* obj.download_video(): its first statement reads self.url
download_video ==
    /\ pc = "idle"
    /\ IF GetAttr("url") = "AttributeError"
       THEN Raise("download_video", NoArg, "AttributeError")
       ELSE IF UrlsNotSet
       THEN Raise("download_video", NoArg, "ValueError")
       ELSE /\ fetchLog' = Append(fetchLog, urls[1])
            /\ pc' = "returned"
            /\ op' = "download_video"
            /\ last' = Outcome("download_video", NoArg, "none")
            /\ UNCHANGED <<fields, jobs, output_files, dirs, files, pools, segLog,
                           batch, splitVars>>

Next ==
    \/ \E arg \in SetUrlArgs : set_url(arg)
    \/ \E p \in OutputPaths : set_output_path(p)
    \/ \E d \in OutputDirs : output_dir_call(d)
    \/ \E d \in OutputDirs : output_dir_unbound(d)
    \/ multi
    \/ \E m \in SplitArgs : split(m)
    \/ audio
    \/ \E i \in 1 .. Len(jobs) : AudioWorkerStart(i)
    \/ \E i \in 1 .. Len(jobs) : AudioLoopStart(i)
    \/ AudioSingleOk
    \/ \E i \in 1 .. Len(jobs) : AudioJobOk(i)
    \/ \E i \in 1 .. Len(jobs) : AudioJobFail(i)
    \/ AudioMapEnd
    \/ AudioLoopEnd
    \/ AudioSplitNext
    \/ AudioReturn
    \/ download_video

Spec == Init /\ [][Next]_vars

(* ------------------ download_images / download_webpages ---------------- *)

\* The URLs of a batch are sequences of characters, so that the file names
\* are computed from them as the code computes them.
\* "https://x.com/img/pic.jpg"
UrlPicX ==
    <<"h", "t", "t", "p", "s", ":", "/", "/", "x", ".", "c", "o", "m", "/", "i", "m", "g", "/", "p", "i", "c", ".", "j", "p", "g">>
\* "https://y.com/pic.jpg"
UrlPicY ==
    <<"h", "t", "t", "p", "s", ":", "/", "/", "y", ".", "c", "o", "m", "/", "p", "i", "c", ".", "j", "p", "g">>
\* "https://example.com/a/b"
UrlPageAB ==
    <<"h", "t", "t", "p", "s", ":", "/", "/", "e", "x", "a", "m", "p", "l", "e", ".", "c", "o", "m", "/", "a", "/", "b">>
\* "https://example.com/a_b"
UrlPageA_B ==
    <<"h", "t", "t", "p", "s", ":", "/", "/", "e", "x", "a", "m", "p", "l", "e", ".", "c", "o", "m", "/", "a", "_", "b">>
BatchUrls == {UrlPicX, UrlPicY, UrlPageAB, UrlPageA_B}
BatchArgs == SeqsUpTo(BatchUrls, MaxBatch)

\* the index of the last "/" of p (0: none)
LastSlash(p) ==
    LET at == {i \in 1 .. Len(p) : p[i] = "/"}
    IN  IF at = {} THEN 0 ELSE CHOOSE i \in at : \A j \in at : j <= i

\* os.path.basename(url): what follows the last "/"
Basename(p) == SubSeq(p, LastSlash(p) + 1, Len(p))

\* url.split('://')[-1]: what follows the last "://" (all of it when none)
AfterScheme(u) ==
    LET at == {i \in 1 .. Len(u) - 2 : u[i] = ":" /\ u[i + 1] = "/" /\ u[i + 2] = "/"}
    IN  IF at = {} THEN u
        ELSE SubSeq(u, (CHOOSE i \in at : \A j \in at : j <= i) + 3, Len(u))

\* .replace('/', '_')
ReplaceSlash(p) == [i \in 1 .. Len(p) |-> IF p[i] = "/" THEN "_" ELSE p[i]]

\* f"{url.split('://')[-1].replace('/', '_')}.html"
WebpageFilename(u) == ReplaceSlash(AfterScheme(u)) \o <<".", "h", "t", "m", "l">>

\* os.path.join(self.output_dir, filename), for a filename without "/"
Join(dir, filename) == [dir |-> dir, name |-> filename]

\* the output_path of job i of the running batch
OutputPath(i) ==
    Join(output_dir, IF op = "download_images" THEN Basename(batch[i]) ELSE WebpageFilename(batch[i]))

\* download_images as the class binds it: the def of line 246 builds a pool
\* whatever the flag says, the def of line 145 looks at the flag.
ImagesUsePool ==
    IF ClassDef("download_images") = 246 THEN TRUE ELSE use_multiprocessing

\* Path(self.output_dir).mkdir(...), then the pool with its submit loop, or
\* the sequential loop
StartBatch(name, image_urls, pooled) ==
    /\ pc = "idle"
    /\ op' = name
    /\ batch' = image_urls
    /\ last' = Outcome(name, NoArg, "pending")
    /\ dirs' = dirs \cup {output_dir}
    /\ jobs' = [i \in 1 .. Len(image_urls) |-> "pending"]
    /\ pools' = IF pooled THEN pools + 1 ELSE pools
    /\ pc' = IF ~pooled THEN "seq" ELSE IF Len(image_urls) = 0 THEN "join" ELSE "submit"
    /\ UNCHANGED <<fields, output_files, files, fetchLog, segLog, splitVars>>

download_images(image_urls) == StartBatch("download_images", image_urls, ImagesUsePool)

download_webpages(webpage_urls) == StartBatch("download_webpages", webpage_urls, use_multiprocessing)

Active == {i \in 1 .. Len(jobs) : jobs[i] \in {"fetching", "writing"}}

\* tasks.append(pool.apply_async(...)) for the next URL
BatchSubmit(i) ==
    /\ pc = "submit"
    /\ jobs[i] = "pending"
    /\ \A j \in 1 .. i - 1 : jobs[j] # "pending"
    /\ jobs' = [jobs EXCEPT ![i] = "queued"]
    /\ pc' = IF i = Len(jobs) THEN "join" ELSE "submit"
    /\ UNCHANGED <<fields, last, op, output_files, env, batch, splitVars>>

\* a worker takes a submitted task: requests.get(url)
BatchWorkerStart(i) ==
    /\ pc \in {"submit", "join"}
    /\ jobs[i] = "queued"
    /\ Cardinality(Active) < PoolSize
    /\ jobs' = [jobs EXCEPT ![i] = "fetching"]
    /\ fetchLog' = Append(fetchLog, batch[i])
    /\ UNCHANGED <<fields, last, pc, op, output_files, dirs, files, pools, segLog,
                   batch, splitVars>>

\* the sequential loop calls the job of its next URL: requests.get(url)
BatchSeqStart(i) ==
    /\ pc = "seq"
    /\ jobs[i] = "pending"
    /\ \A j \in 1 .. i - 1 : jobs[j] \in {"done", "failed"}
    /\ jobs' = [jobs EXCEPT ![i] = "fetching"]
    /\ fetchLog' = Append(fetchLog, batch[i])
    /\ UNCHANGED <<fields, last, pc, op, output_files, dirs, files, pools, segLog,
                   batch, splitVars>>

\* raise_for_status() passes and open(output_path, 'wb' / 'w') creates the file
BatchOpen(i) ==
    /\ jobs[i] = "fetching"
    /\ jobs' = [jobs EXCEPT ![i] = "writing"]
    /\ files' = files \cup {OutputPath(i)}
    /\ UNCHANGED <<fields, last, pc, op, output_files, dirs, pools, fetchLog, segLog,
                   batch, splitVars>>

\* file.write(...) and the end of the with block
BatchWritten(i) ==
    /\ jobs[i] = "writing"
    /\ jobs' = [jobs EXCEPT ![i] = "done"]
    /\ UNCHANGED <<fields, last, pc, op, output_files, env, batch, splitVars>>

\* except requests.exceptions.RequestException: print, and the job returns
BatchHttpError(i) ==
    /\ jobs[i] = "fetching"
    /\ jobs' = [jobs EXCEPT ![i] = "failed"]
    /\ UNCHANGED <<fields, last, pc, op, output_files, env, batch, splitVars>>

\* every task.get() has returned (or the loop has ended): return self
BatchReturn ==
    /\ pc \in {"join", "seq"}
    /\ op \in {"download_images", "download_webpages"}
    /\ \A i \in 1 .. Len(jobs) : jobs[i] \in {"done", "failed"}
    /\ pc' = "returned"
    /\ last' = Outcome(op, NoArg, "none")
    /\ UNCHANGED <<fields, op, jobs, output_files, env, batch, splitVars>>

BatchNext ==
    \/ multi
    \/ \E xs \in BatchArgs : download_images(xs)
    \/ \E xs \in BatchArgs : download_webpages(xs)
    \/ \E i \in 1 .. Len(jobs) : BatchSubmit(i)
    \/ \E i \in 1 .. Len(jobs) : BatchWorkerStart(i)
    \/ \E i \in 1 .. Len(jobs) : BatchSeqStart(i)
    \/ \E i \in 1 .. Len(jobs) : BatchOpen(i)
    \/ \E i \in 1 .. Len(jobs) : BatchWritten(i)
    \/ \E i \in 1 .. Len(jobs) : BatchHttpError(i)
    \/ BatchReturn

BatchSpec == Init /\ [][BatchNext]_vars

(* ----------------------- split_audio, step by step --------------------- *)

\* len(audio) of the input file, in ms: whole minutes and minutes plus a rest
AudioLens == {m * 60000 + d : m \in 0 .. MaxAudioMinutes, d \in {0, 1, 30000, 59999}}

\* a call obj.split_audio(input_file, minutes) on a fresh object
SplitInit ==
    /\ urls = <<>>
    /\ output_path = "%(title)s.%(ext)s"
    /\ output_dir = "."
    /\ use_multiprocessing = FALSE
    /\ split_minutes = NoSplit
    /\ last = Outcome("split_audio", NoArg, "pending")
    /\ pc = "split_call"
    /\ op = "split_audio"
    /\ jobs = <<>>
    /\ output_files = <<>>
    /\ dirs = {"."}
    /\ files = {}
    /\ pools = 0
    /\ fetchLog = <<>>
    /\ segLog = <<>>
    /\ batch = <<>>
    /\ input_exists \in BOOLEAN
    /\ audio_len \in AudioLens
    /\ minutes \in 1 .. MaxMinutes
    /\ seg_i = 0
    /\ segments = <<>>

\* if not os.path.exists(input_file): raise FileNotFoundError; else load the
\* file and compute num_segments
split_audio_enter ==
    /\ pc = "split_call"
    /\ IF ~input_exists
       THEN /\ pc' = "raised"
            /\ last' = Outcome("split_audio", NoArg, "FileNotFoundError")
       ELSE /\ pc' = "split_loop"
            /\ last' = last
    /\ UNCHANGED <<fields, op, jobs, output_files, env, batch, splitVars>>

\* one pass of for i in range(num_segments): slice and export part i+1
split_audio_export ==
    /\ pc = "split_loop"
    /\ seg_i < NumSegments(audio_len, minutes)
    /\ segments' = Append(segments,
                          [part |-> seg_i + 1,
                           start |-> Segment(audio_len, minutes, seg_i).start,
                           end |-> Segment(audio_len, minutes, seg_i).end])
    /\ seg_i' = seg_i + 1
    /\ UNCHANGED <<fields, last, run, env, batch, input_exists, audio_len, minutes>>

\* the loop ends: return self
split_audio_return ==
    /\ pc = "split_loop"
    /\ seg_i >= NumSegments(audio_len, minutes)
    /\ pc' = "returned"
    /\ last' = Outcome("split_audio", NoArg, "none")
    /\ UNCHANGED <<fields, op, jobs, output_files, env, batch, splitVars>>

SplitNext ==
    \/ split_audio_enter
    \/ split_audio_export
    \/ split_audio_return

SplitSpec == SplitInit /\ [][SplitNext]_vars

(* ============================== claims ================================= *)

AllStr(xs) == \A i \in 1 .. Len(xs) : xs[i].t = "str"

\* C1: every configuration method (set_url with a valid argument,
\* set_output_path, output_dir, multi, split) called on the object completes
\* without error, stores its argument in its field and leaves the object
\* ready for the next call of the chain.
C1_ConfigMethodsChain ==
    LET a == last.arg
        valid_url == last.op = "set_url" /\ (a.t = "str" \/ (a.t = "list" /\ AllStr(a.items)))
    IN  (valid_url \/ last.op \in {"set_output_path", "output_dir", "multi", "split"}) =>
            /\ last.exc = "none"
            /\ pc = "idle"
            /\ last.op = "set_url" => urls = (IF a.t = "str" THEN <<PyStr(a.s)>> ELSE a.items)
            /\ last.op = "set_output_path" => output_path = a.s
            /\ last.op = "output_dir" => output_dir = a.s
            /\ last.op = "multi" => use_multiprocessing
            /\ last.op = "split" => split_minutes = a.n

\* C2: set_url stores a single string as a one-element list and a list of
\* strings as given; every other argument, a list holding a non-string
\* included, raises ValueError, leaves urls unchanged and starts no fetch.
\* (A step from an idle state that records a set_url outcome is a set_url call.
\* A tuple of strings, a sequence that is no list, is left open.)
C2_SetUrlRejectsOthers ==
    [][(pc = "idle" /\ last'.op = "set_url") =>
        LET a == last'.arg
        IN  IF a.t = "str"
            THEN last'.exc = "none" /\ urls' = <<PyStr(a.s)>>
            ELSE IF a.t = "list" /\ AllStr(a.items)
            THEN last'.exc = "none" /\ urls' = a.items
            ELSE IF a.t = "tuple" /\ AllStr(a.items)
            THEN TRUE
            ELSE last'.exc = "ValueError" /\ urls' = urls /\ fetchLog' = fetchLog]_vars

\* C3: audio() with no URL configured raises ValueError and has no side
\* effect: no directory, no file, no pool, no fetch, no segmentation, and the
\* configuration fields and the object's position are unchanged.
\* (A step from an idle state that records an audio outcome is an audio call.)
C3_AudioWithoutUrls ==
    [][(pc = "idle" /\ urls = <<>> /\ last'.op = "audio") =>
        /\ last'.exc = "ValueError"
        /\ UNCHANGED <<dirs, files, pools, fetchLog, segLog>>
        /\ UNCHANGED fields
        /\ UNCHANGED run]_vars

\* C3's case: audio() has just raised ValueError on an object without URLs.
C3_Witness ==
    /\ last.op = "audio"
    /\ last.exc = "ValueError"
    /\ urls = <<>>
    /\ use_multiprocessing
    /\ SplitConfigured

\* C7: download_video with no URL configured raises ValueError before any
\* I/O, and after set_url it hands the URL to the fetch primitive and returns
\* the object.
C7_DownloadVideo ==
    last.op = "download_video" =>
        IF urls = <<>>
        THEN last.exc = "ValueError" /\ fetchLog = <<>>
        ELSE last.exc = "none" /\ pc = "returned" /\ fetchLog = <<urls[1]>>

\* C9: in audio() with one URL or several, the output directory exists
\* before the first fetch job starts.
C9_OutputDirBeforeFetch ==
    (op = "audio" /\ fetchLog # <<>>) => output_dir \in dirs

\* C10: in audio() with two or more URLs and a split interval, in either
\* dispatch mode: segmentation starts only once every fetch job is done and
\* none is running; the files are segmented one by one in the caller, once
\* per URL and in input order; a failed fetch job leaves no file segmented
\* and audio() can only raise.
C10_SplitAfterAllFetches ==
    (op = "audio" /\ Len(urls) >= 2 /\ SplitConfigured) =>
        /\ (segLog # <<>> \/ pc = "split") =>
               /\ \A i \in 1 .. Len(jobs) : jobs[i] = "done"
               /\ Len(output_files) = Len(urls)
        /\ Len(segLog) <= Len(urls)
        /\ \A k \in 1 .. Len(segLog) : segLog[k] = OutFile(urls[k])
        /\ \A k \in 1 .. Len(segLog) : PartFiles(segLog[k], split_minutes) \subseteq files
        /\ pc = "returned" => Len(segLog) = Len(urls) /\ last.exc = "none"
        /\ Failed # {} =>
               /\ segLog = <<>>
               /\ pc \in {"map", "raised"}
               /\ \A f \in files : f.part = 0
        /\ pc = "raised" => Failed # {} /\ last.exc = "DownloadError"

\* C10's case: a pooled batch of two URLs has been fetched and segmented.
C10_Witness ==
    /\ op = "audio"
    /\ pc = "returned"
    /\ use_multiprocessing
    /\ SplitConfigured
    /\ Len(urls) >= 2
    /\ Len(segLog) = Len(urls)

\* C4: download_images and download_webpages pick their dispatch mode by the
\* flag: without multi() no pool is built and the jobs run one at a time in
\* input order; with multi() a pool is built.
C4_DispatchFollowsFlag ==
    op \in {"download_images", "download_webpages"} =>
        /\ (pools > 0) <=> use_multiprocessing
        /\ ~use_multiprocessing =>
               /\ Cardinality(Active) <= 1
               /\ fetchLog = SubSeq(batch, 1, Len(fetchLog))

Distinct(xs) == \A i, j \in 1 .. Len(xs) : i # j => xs[i] # xs[j]

\* C5: a batch of N URLs of which exactly one fails its HTTP fetch never
\* raises, and when it returns every other job is done and exactly N-1
\* files are written.
C5_OneFailureIsolated ==
    (op \in {"download_images", "download_webpages"} /\ Distinct(batch)) =>
        /\ pc # "raised"
        /\ (pc = "returned" /\ Cardinality(Failed) = 1) =>
               /\ last.exc = "none"
               /\ \A i \in 1 .. Len(jobs) : i \notin Failed => jobs[i] = "done"
               /\ Cardinality(files) = Len(batch) - 1

\* C8: in a pooled batch no two jobs of distinct URLs are writing the same
\* file at the same time.
C8_NoConcurrentWritersOfOneFile ==
    (op \in {"download_images", "download_webpages"} /\ pools > 0) =>
        \A i, j \in 1 .. Len(jobs) :
            (i # j /\ batch[i] # batch[j] /\ jobs[i] = "writing" /\ jobs[j] = "writing")
                => OutputPath(i) # OutputPath(j)

\* C6: split_audio on an existing file of D ms with L minutes per segment
\* exports parts 1..K with K = ceil(D / (L*60000)); part i covers
\* [(i-1)*L*60000, min(i*L*60000, D)); the parts are contiguous, do not
\* overlap and cover [0, D); the last one lasts D - (K-1)*L*60000, which is
\* more than 0 and at most L*60000.
C6_SegmentsCoverTheFile ==
    LET S == minutes * 60000
        D == audio_len
        K == Len(segments)
    IN  (op = "split_audio" /\ input_exists) =>
            /\ \A k \in 1 .. K :
                   /\ segments[k].part = k
                   /\ segments[k].start = (k - 1) * S
                   /\ segments[k].end = (IF k * S <= D THEN k * S ELSE D)
                   /\ segments[k].start < segments[k].end
            /\ \A k \in 1 .. K - 1 : segments[k].end = segments[k + 1].start
            /\ pc = "returned" =>
                   /\ (K - 1) * S < D /\ D <= K * S
                   /\ K >= 1 => /\ segments[1].start = 0
                                /\ segments[K].end = D
                                /\ segments[K].end - segments[K].start = D - (K - 1) * S
                   /\ 0 < D - (K - 1) * S /\ D - (K - 1) * S <= S

\* C6's case: the call has returned after several parts, the last one short.
C6_Witness ==
    /\ op = "split_audio"
    /\ pc = "returned"
    /\ Len(segments) >= 2
    /\ segments[Len(segments)].end - segments[Len(segments)].start < minutes * 60000

====
